---- MODULE Spec2Model ----
(***************************************************************************)
(* Model of finder.py: process_css_files(path, fix_mode).                  *)
(*                                                                         *)
(* A file's bytes are a sequence of tokens, each standing for one fixed    *)
(* string.  No token's string starts or ends inside a place where one of   *)
(* the three regular expressions could match across a token boundary, so a *)
(* match on the string is exactly a match on the tokens:                   *)
(*     "I"  = @import url(x);      (the only source of "@import ")         *)
(*     ";"  = ;                                                            *)
(*     "C"  = */                   (the only source of "*" before "/")     *)
(*     "B"  = http:/*                                                      *)
(*     "G"  = http://                                                      *)
(*     "sp" = one space            "nl" = one line feed                    *)
(*     "X"  = the byte 0xFF, which no UTF-8 text contains                  *)
(* Carriage returns are outside the alphabet, so the newline translation   *)
(* of Python's text mode is the identity on these files.  A write that     *)
(* fails part-way leaves a prefix of the text's bytes; where the cut falls *)
(* inside a token, the file ends with that token's first bytes, written    *)
(* here as the string of those bytes ("htt", "*", "@imp").  Such a file is *)
(* never read again in the run.                                            *)
(* File paths are ASCII, so the "Could not read file" print and the        *)
(* summary prints succeed on any stdout; the two notices carry a           *)
(* non-ASCII mark and raise on a stdout whose encoding lacks it.           *)
(***************************************************************************)
EXTENDS Naturals, Sequences, FiniteSets

\* ------------------------------------------------------------------ bounds
MaxTextLen == 4
MaxFiles == 2

TextTokens == {"I", ";", "C", "B", "G", "sp", "nl"}
ByteTokens == TextTokens \cup {"X"}

RECURSIVE SeqsUpTo(_, _)
SeqsUpTo(S, n) ==
    IF n = 0 THEN {<<>>}
    ELSE LET shorter == SeqsUpTo(S, n - 1)
         IN  shorter \cup {Append(s, t) : s \in {u \in shorter : Len(u) = n - 1}, t \in S}

\* Contents a file may start with: every byte sequence up to MaxTextLen (one-file
\* runs), and a clean and a defective text (runs over a tree).
FileBytes == SeqsUpTo(ByteTokens, MaxTextLen)
TreeBytes == {<<"G">>, <<"B">>}

FileNames == {"a.css", "b.css", "a.scss"}
Dirs ==
    {<<>>, <<"lib">>, <<"node_modules">>, <<"lib", "node_modules">>,
     <<"node_modules", "lib">>, <<"lib", "lib">>}
TreePaths == {Append(d, f) : d \in Dirs, f \in FileNames}

\* ------------------------------------------------------------ pure helpers
Min(S) == CHOOSE x \in S : \A y \in S : x <= y

Chars(name) ==
    CASE name = "a.css" -> <<"a", ".", "c", "s", "s">>
      [] name = "b.css" -> <<"b", ".", "c", "s", "s">>
      [] name = "a.scss" -> <<"a", ".", "s", "c", "s", "s">>
      [] name = ".css" -> <<".", "c", "s", "s">>
      [] OTHER -> <<name>>

endswith(s, suffix) ==
    /\ Len(suffix) <= Len(s)
    /\ SubSeq(s, Len(s) - Len(suffix) + 1, Len(s)) = suffix

\* if file.endswith('.css')
Selected(f) == endswith(Chars(f), Chars(".css"))

\* open(..., encoding='utf-8', errors='ignore').read(): undecodable bytes are dropped.
DecodeKeep(bytes) == bytes
Decode(bytes) == SelectSeq(bytes, LAMBDA b : b # "X")

\* f.write(text) under encoding='utf-8': every token of a text encodes to itself.
Encode(text) == text

IsWs(t) == t \in {"sp", "nl"}
IsSemi(t) == t \in {"I", ";"}

\* \s* from position k: the first position at or after k that holds no whitespace.
RECURSIVE SkipWs(_, _)
SkipWs(s, k) == IF k <= Len(s) /\ IsWs(s[k]) THEN SkipWs(s, k + 1) ELSE k

\* $ without re.MULTILINE, just after token k: the end of the text, or just
\* before a line feed that ends the text.
AtAnywhere(s, k) == TRUE
AtDollar(s, k) == k = Len(s) \/ (k = Len(s) - 1 /\ s[Len(s)] = "nl")

\* (@import .*?;)\s*\*/$ tried at token i: the positions j of the semicolon that
\* closes group 1 for which the rest of the pattern matches ("." takes no "nl").
SemiEnds(s, i) ==
    {j \in i..Len(s) :
        /\ IsSemi(s[j])
        /\ \A m \in (i + 1)..(j - 1) : s[m] # "nl"
        /\ LET k == SkipWs(s, j + 1)
           IN  k <= Len(s) /\ s[k] = "C" /\ AtDollar(s, k)}

MatchStartsA(s, from) == {i \in from..Len(s) : s[i] = "I" /\ SemiEnds(s, i) # {}}

\* pattern.sub(r"\1", s) for Rule A, scanning from token `from`.
RECURSIVE SubA(_, _)
SubA(s, from) ==
    IF MatchStartsA(s, from) = {} THEN SubSeq(s, from, Len(s))
    ELSE LET i == Min(MatchStartsA(s, from))
             j == Min(SemiEnds(s, i))
             k == SkipWs(s, j + 1)
         IN  SubSeq(s, from, j) \o SubA(s, k + 1)

RuleA(s) == SubA(s, 1)

\* re.compile(r"http:/\*") -> "http://"
RuleB(s) == [i \in 1..Len(s) |-> IF s[i] = "B" THEN "G" ELSE s[i]]

\* re.compile(r"(\*/\s*)\*/") -> r"\1", scanning from token `from`: matches are
\* taken leftmost and do not overlap.
RECURSIVE SubC(_, _)
SubC(s, from) ==
    IF from > Len(s) THEN <<>>
    ELSE IF s[from] = "C"
              /\ SkipWs(s, from + 1) <= Len(s)
              /\ s[SkipWs(s, from + 1)] = "C"
         THEN SubSeq(s, from, SkipWs(s, from + 1) - 1) \o SubC(s, SkipWs(s, from + 1) + 1)
         ELSE <<s[from]>> \o SubC(s, from + 1)

RECURSIVE SubCTrim(_, _)
SubCTrim(s, from) ==
    IF from > Len(s) THEN <<>>
    ELSE IF s[from] = "C"
              /\ SkipWs(s, from + 1) <= Len(s)
              /\ s[SkipWs(s, from + 1)] = "C"
         THEN <<"C">> \o SubCTrim(s, SkipWs(s, from + 1) + 1)
         ELSE <<s[from]>> \o SubCTrim(s, from + 1)

RuleCTrim(s) == SubCTrim(s, 1)
RuleC(s) == SubC(s, 1)

\* The loop over fix_patterns: the texts before Rule A and after A, B and C.
Stages(content) ==
    <<content, RuleA(content), RuleB(RuleA(content)), RuleC(RuleB(RuleA(content)))>>

ApplyRules(content) == Stages(content)[4]

\* ------------------------------------------------------------------- state
VARIABLES
    fix_mode,          \* the fix_mode argument
    stdout_marks,      \* sys.stdout can encode the marks of the two notices
    disk,              \* file path -> bytes on disk
    disk0,             \* the bytes on disk when the run started
    stack,             \* os.walk: directories still to visit, innermost first
    root,              \* the directory os.walk yielded last
    pending,           \* names in `files` not yet iterated
    pc,                \* "walk" | "files" | "done"
    files_processed,
    errors_found,
    walked,            \* directories os.walk yielded
    opened,            \* paths given to open(..., 'r')
    readOk,            \* paths whose read returned
    writeOpened,       \* paths given to open(..., 'w')
    replaced,          \* paths whose write and close returned
    issues,            \* paths that incremented errors_found
    processed,         \* paths that incremented files_processed
    fixedNotice,       \* paths printed as "Fixed error in"
    foundNotice,       \* paths printed as "Found potential error in"
    unreadableNotice,  \* paths printed as "Could not read file"
    summary,           \* the final "Scan complete" message
    stages,            \* the rule loop's texts for the file handled last
    last               \* the path handled last

vars ==
    <<fix_mode, stdout_marks, disk, disk0, stack, root, pending, pc, files_processed,
      errors_found, walked, opened, readOk, writeOpened, replaced, issues, processed, fixedNotice,
      foundNotice, unreadableNotice, summary, stages, last>>

IsPrefix(d, p) == Len(d) <= Len(p) /\ SubSeq(p, 1, Len(d)) = d

\* os.walk's `files` and `dirs` for directory d.
ListFiles(d) == {p[Len(p)] : p \in {q \in DOMAIN disk : Len(q) = Len(d) + 1 /\ IsPrefix(d, q)}}
ListDirs(d) == {p[Len(d) + 1] : p \in {q \in DOMAIN disk : Len(q) > Len(d) + 1 /\ IsPrefix(d, q)}}

\* if 'node_modules' in dirs: dirs.remove('node_modules')
PruneNothing(dirs) == dirs
Prune(dirs) == dirs \ {"node_modules"}

\* if modified_content != original_content: ... if fix_mode: (the write branch)
WritesBackAlways(changed, mode) == changed
WritesBack(changed, mode) == changed /\ mode

\* except Exception as e: print(...) -- the loop goes on with the next file.
Propagate(nextpc) == "aborted"
AfterCaught(nextpc) == nextpc

ReadOutcomes == {"ok", "fail"}

\* The proper, non-empty prefixes of a token's bytes.
Fragments(tok) ==
    CASE tok = "I" ->
            {"@", "@i", "@im", "@imp", "@impo", "@impor", "@import", "@import ",
             "@import u", "@import ur", "@import url", "@import url(",
             "@import url(x", "@import url(x)"}
      [] tok = "C" -> {"*"}
      [] tok \in {"G", "B"} -> {"h", "ht", "htt", "http", "http:", "http:/"}
      [] OTHER -> {}

\* with open(file_path, 'w', ...) as f: f.write(text) -- what it does and the bytes
\* the file holds afterwards: the whole text; the old bytes when open raises; and
\* when the file was truncated and the write or the close raises, any prefix of
\* the text's bytes, cut between two tokens or inside one, up to the whole text.
PartialWrites(bytes) ==
    {SubSeq(bytes, 1, n) : n \in 0..Len(bytes)}
        \cup UNION {{Append(SubSeq(bytes, 1, n - 1), f) : f \in Fragments(bytes[n])} :
                       n \in 1..Len(bytes)}
WriteOutcomes(old, text) ==
    {[out |-> "ok", bytes |-> Encode(text)], [out |-> "openfail", bytes |-> old]}
        \cup {[out |-> "writefail", bytes |-> b] : b \in PartialWrites(Encode(text))}

RECURSIVE SubsetsUpTo(_, _)
SubsetsUpTo(S, n) ==
    IF n = 0 THEN {{}}
    ELSE LET smaller == SubsetsUpTo(S, n - 1)
         IN  smaller \cup {T \cup {x} : T \in smaller, x \in S}

InitRun(d, m, o) ==
    /\ stdout_marks = o
    /\ disk = d
    /\ disk0 = d
    /\ fix_mode = m
    /\ stack = <<{<<>>}>>
    /\ root = <<>>
    /\ pending = {}
    /\ pc = "walk"
    /\ files_processed = 0
    /\ errors_found = 0
    /\ walked = {}
    /\ opened = {}
    /\ readOk = {}
    /\ writeOpened = {}
    /\ replaced = {}
    /\ issues = {}
    /\ processed = {}
    /\ fixedNotice = {}
    /\ foundNotice = {}
    /\ unreadableNotice = {}
    /\ summary = [kind |-> "none", n |-> 0]
    /\ stages = <<>>
    /\ last = <<>>

\* A run over a tree of up to MaxFiles files.
Init ==
    \E S \in SubsetsUpTo(TreePaths, MaxFiles) :
        \E d \in [S -> TreeBytes], m \in BOOLEAN, o \in BOOLEAN : InitRun(d, m, o)

\* A run over a tree that holds the one file a.css, with any bytes.
InitText ==
    \E b \in FileBytes, m \in BOOLEAN, o \in BOOLEAN :
        InitRun([p \in {<<"a.css">>} |-> b], m, o)

\* for root, dirs, files in os.walk(path): the next directory, node_modules pruned.
WalkDir ==
    /\ pc = "walk"
    /\ stack # <<>>
    /\ \E d \in Head(stack) :
        LET kids == {Append(d, n) : n \in Prune(ListDirs(d))}
            restTop == Head(stack) \ {d}
            below == IF restTop = {} THEN Tail(stack) ELSE <<restTop>> \o Tail(stack)
        IN  /\ root' = d
            /\ walked' = walked \cup {d}
            /\ pending' = ListFiles(d)
            /\ stack' = IF kids = {} THEN below ELSE <<kids>> \o below
            /\ pc' = IF ListFiles(d) = {} THEN "walk" ELSE "files"
    /\ UNCHANGED <<fix_mode, stdout_marks, disk, disk0, files_processed, errors_found,
                   opened, readOk,
                   writeOpened, replaced, issues, processed, fixedNotice, foundNotice,
                   unreadableNotice, summary, stages, last>>

\* The try block for one selected file, st being the texts of the rule loop on
\* its decoded bytes: r is what reading does, w what writing does.  errors_found is incremented first;
\* then the notice is printed, which raises when stdout cannot encode its mark;
\* then, in fix mode, the file is written; files_processed is incremented last.
\* Whatever raises is caught.
Process(p, st, r, w, nextpc) ==
    LET content == st[1]
        modified == st[4]
        changed == r = "ok" /\ modified # content
        branch == r = "ok" /\ WritesBack(modified # content, fix_mode)
        printed == changed /\ stdout_marks
        writes == branch /\ printed
        failed == r = "fail" \/ (changed /\ ~printed) \/ (writes /\ w.out # "ok")
    IN  /\ opened' = opened \cup {p}
        /\ readOk' = IF r = "ok" THEN readOk \cup {p} ELSE readOk
        /\ stages' = IF r = "ok" THEN st ELSE <<>>
        /\ last' = p
        /\ errors_found' = IF changed THEN errors_found + 1 ELSE errors_found
        /\ issues' = IF changed THEN issues \cup {p} ELSE issues
        /\ fixedNotice' = IF printed /\ branch THEN fixedNotice \cup {p} ELSE fixedNotice
        /\ foundNotice' = IF printed /\ ~branch THEN foundNotice \cup {p} ELSE foundNotice
        /\ writeOpened' = IF writes THEN writeOpened \cup {p} ELSE writeOpened
        /\ disk' = IF writes THEN [disk EXCEPT ![p] = w.bytes] ELSE disk
        /\ replaced' = IF writes /\ w.out = "ok" THEN replaced \cup {p} ELSE replaced
        /\ files_processed' = IF failed THEN files_processed ELSE files_processed + 1
        /\ processed' = IF failed THEN processed ELSE processed \cup {p}
        /\ unreadableNotice' = IF failed THEN unreadableNotice \cup {p} ELSE unreadableNotice
        /\ pc' = IF failed THEN AfterCaught(nextpc) ELSE nextpc

\* for file in files: one iteration.  A write has an outcome only when the file
\* was read, the rules changed its text, the notice was printed and the write
\* branch is taken; a file never written keeps its bytes.
HandleFile ==
    /\ pc = "files"
    /\ \E f \in pending :
        LET nextpc == IF pending = {f} THEN "walk" ELSE "files"
            p == Append(root, f)
            st == Stages(Decode(disk[p]))
            changes == st[4] # st[1]
            unwritten == {[out |-> "none", bytes |-> disk[p]]}
        IN  /\ pending' = pending \ {f}
            /\ IF Selected(f)
               THEN \E r \in ReadOutcomes :
                      \E w \in IF r = "ok" /\ stdout_marks
                                   /\ WritesBack(changes, fix_mode)
                                THEN WriteOutcomes(disk[p], st[4])
                                ELSE unwritten :
                         Process(p, st, r, w, nextpc)
               ELSE /\ pc' = nextpc
                    /\ UNCHANGED <<disk, files_processed, errors_found, opened, readOk,
                                   writeOpened, replaced, issues, processed, fixedNotice,
                                   foundNotice, unreadableNotice, stages, last>>
    /\ UNCHANGED <<fix_mode, stdout_marks, disk0, stack, root, walked, summary>>

\* The prints after the walk.
Summary ==
    /\ pc = "walk"
    /\ stack = <<>>
    /\ pc' = "done"
    /\ summary' = IF fix_mode THEN [kind |-> "fixed", n |-> errors_found]
                  ELSE IF errors_found > 0 THEN [kind |-> "found", n |-> errors_found]
                  ELSE [kind |-> "clean", n |-> 0]
    /\ UNCHANGED <<fix_mode, stdout_marks, disk, disk0, stack, root, pending, files_processed,
                   errors_found, walked, opened, readOk, writeOpened, replaced, issues,
                   processed, fixedNotice, foundNotice, unreadableNotice, stages, last>>

Next == WalkDir \/ HandleFile \/ Summary

Spec == Init /\ [][Next]_vars
SpecText == InitText /\ [][Next]_vars

\* ------------------------------------------------------- terms of the claims
TheFile == <<"a.css">>
CssNames == {"a.css", "b.css"}

UnderNodeModules(p) == \E i \in 1..(Len(p) - 1) : p[i] = "node_modules"
Excluded(p) == p[Len(p)] \notin CssNames \/ UnderNodeModules(p)
Eligible(p) == ~Excluded(p)

RECURSIVE ValidPart(_)
ValidPart(bytes) ==
    IF bytes = <<>> THEN <<>>
    ELSE IF Head(bytes) = "X" THEN ValidPart(Tail(bytes))
    ELSE <<Head(bytes)>> \o ValidPart(Tail(bytes))

HasInvalid(bytes) == \E i \in 1..Len(bytes) : bytes[i] = "X"

EndsLine(s, k) == k = Len(s) \/ s[k + 1] = "nl"
StartsLine(s, a) == a = 1 \/ s[a - 1] = "nl"

\* The three defective patterns as the rule table describes them; whitespace is
\* any run of spaces and line feeds.
HasDefectA(s) ==
    \E i \in 1..Len(s), j \in 1..Len(s), k \in 1..Len(s) :
        /\ i <= j /\ j < k
        /\ s[i] = "I" /\ s[j] \in {"I", ";"} /\ s[k] = "C"
        /\ \A m \in i..j : s[m] # "nl"
        /\ \A m \in (j + 1)..(k - 1) : s[m] \in {"sp", "nl"}
        /\ EndsLine(s, k)
HasDefectB(s) == \E i \in 1..Len(s) : s[i] = "B"
HasDefectC(s) ==
    \E i \in 1..Len(s), k \in 1..Len(s) :
        /\ i < k /\ s[i] = "C" /\ s[k] = "C"
        /\ \A m \in (i + 1)..(k - 1) : s[m] \in {"sp", "nl"}
NoDefect(s) == ~HasDefectA(s) /\ ~HasDefectB(s) /\ ~HasDefectC(s)

\* Tokens a..b of s are one whole line: an @import declaration up to its
\* semicolon at j, then spaces, then a closer that ends the line.
ImportCloserLine(s, a, j, b) ==
    /\ a <= j /\ j < b
    /\ StartsLine(s, a) /\ EndsLine(s, b)
    /\ \A m \in a..b : s[m] # "nl"
    /\ s[a] = "I" /\ s[j] \in {"I", ";"} /\ s[b] = "C"
    /\ \A m \in (j + 1)..(b - 1) : s[m] = "sp"

DoubleCloser(s) ==
    /\ Len(s) >= 2
    /\ s[1] = "C" /\ s[Len(s)] = "C"
    /\ \A m \in 2..(Len(s) - 1) : s[m] \in {"sp", "nl"}

\* ------------------------------------------------------------------- claims

\* C1: idempotence of fix mode -- every file a fix-mode run rewrote holds text
\* that the three rules, applied in order once more, leave unchanged, so that a
\* second fix-mode run would count no issue and change no file.
C1_FixedTextIsStable ==
    \A p \in replaced : ApplyRules(Decode(disk[p])) = Decode(disk[p])

\* C2: scan-only mode never writes -- with fix_mode false, in every state of the
\* run every file holds the bytes it held at the start and no file was opened for
\* writing, whatever was detected and whichever reads failed.
C2_ScanNeverWrites ==
    ~fix_mode => disk = disk0 /\ writeOpened = {} /\ replaced = {}

C2_Witness ==
    /\ ~fix_mode
    /\ pc = "done"
    /\ foundNotice # {}
    /\ unreadableNotice \ readOk # {}

\* C3: excluded files are never touched -- a file whose name does not end with
\* .css, or that lies beneath a directory named node_modules at any depth, is
\* never opened for reading or writing and keeps its bytes, in both modes; and no
\* directory named node_modules, nor any directory beneath one, is visited.
C3_ExcludedNeverTouched ==
    /\ \A p \in DOMAIN disk :
          Excluded(p) => p \notin opened /\ p \notin writeOpened /\ disk[p] = disk0[p]
    /\ \A d \in walked : \A i \in 1..Len(d) : d[i] # "node_modules"

C3_Witness ==
    /\ pc = "done"
    /\ fix_mode
    /\ replaced # {}
    /\ \E p \in DOMAIN disk :
          /\ Len(p) = 3 /\ p[2] = "node_modules" /\ p[3] \in CssNames
          /\ disk0[p] = <<"B">>

\* C4: non-match preservation -- a .css file that was read and whose text holds
\* none of the three defective patterns is not counted as an issue and is not
\* opened for writing, in fix mode and in scan mode, and is counted as processed.
C4_NonMatchPreserved ==
    \A p \in readOk :
        Eligible(p) /\ NoDefect(ValidPart(disk0[p]))
            => p \notin issues /\ p \notin writeOpened /\ p \in processed
               /\ disk[p] = disk0[p]

C4_Witness ==
    /\ pc = "done"
    /\ fix_mode
    /\ disk0[TheFile] = <<"I", "C", "G">>
    /\ TheFile \in processed
    /\ files_processed = 1
    /\ errors_found = 0

\* C5: Rule A is anchored to end-of-line -- when one line of a file (first,
\* middle or last) is an @import declaration followed by optional spaces and a
\* stray closer that ends the line, and nothing else in the file is defective,
\* the candidate text is the file with that line cut back to the declaration
\* and the file is counted as an issue.
C5_RuleAFixesEveryLine ==
    \A p \in readOk :
        LET s == Decode(disk0[p])
        IN  p = last =>
              \A a \in 1..Len(s), j \in 1..Len(s), b \in 1..Len(s) :
                 /\ ImportCloserLine(s, a, j, b)
                 /\ NoDefect(SubSeq(s, 1, j) \o SubSeq(s, b + 1, Len(s)))
                 => /\ stages[4] = SubSeq(s, 1, j) \o SubSeq(s, b + 1, Len(s))
                    /\ p \in issues

\* C6 as stated: Rule C applied to a closer, whitespace and a closer yields
\* exactly one closer and nothing after it.
C6_CollapsesToBareCloser ==
    stages # <<>> /\ DoubleCloser(stages[3]) => stages[4] = <<"C">>

\* C6, amended: Rule C applied to a closer, whitespace and a closer removes the
\* second closer only -- the result is the first closer followed by the
\* whitespace that separated the two.
C6_DropsSecondCloser ==
    stages # <<>> /\ DoubleCloser(stages[3])
        => stages[4] = SubSeq(stages[3], 1, Len(stages[3]) - 1)

C6_Witness ==
    /\ stages # <<>>
    /\ stages[3] = <<"C", "sp", "sp", "C">>
    /\ stages[4] = <<"C", "sp", "sp">>

\* C7: per-file failure isolation -- a failed read or write of one file never
\* stops the run: until the summary is printed a next step exists, and at the
\* summary every eligible file has been opened, and every file whose handling
\* did not fail is counted as processed and holds what a run without failures
\* leaves in it.
C7_FailureIsolated ==
    /\ pc \in {"walk", "files", "done"}
    /\ pc # "done" => ENABLED Next
    /\ pc = "done" =>
          /\ \A p \in DOMAIN disk :
                Eligible(p) =>
                   /\ p \in opened
                   /\ p \notin unreadableNotice =>
                         /\ p \in processed
                         /\ disk[p] = IF fix_mode THEN ApplyRules(ValidPart(disk0[p]))
                                      ELSE disk0[p]
          /\ files_processed =
                Cardinality({p \in DOMAIN disk : Eligible(p)} \ unreadableNotice)

C7_Witness ==
    /\ pc = "done"
    /\ fix_mode
    /\ unreadableNotice # {}
    /\ last \in replaced
    /\ last \notin unreadableNotice

\* C8 as stated: a .css file with bytes that are not UTF-8 is reported as
\* unreadable, is not counted as an issue and is never opened for writing.
C8_InvalidBytesSkipped ==
    \A p \in opened :
        HasInvalid(disk0[p])
            => p \in unreadableNotice /\ p \notin issues /\ p \notin writeOpened

\* C8, amended: a .css file with bytes that are not UTF-8 is read with those
\* bytes dropped and handled as the remaining text -- it is counted as an issue
\* exactly when the rules change that text; it is reported as unreadable only
\* when the rules change the text and printing its notice or rewriting it failed;
\* otherwise it is counted as processed and, in fix mode when the rules change
\* the text, holds the candidate text, else its old bytes.
C8_InvalidBytesDropped ==
    \A p \in readOk :
        HasInvalid(disk0[p]) =>
            LET text == ValidPart(disk0[p])
                cand == ApplyRules(text)
            IN  /\ p \in issues <=> cand # text
                /\ p \in unreadableNotice =>
                      /\ cand # text
                      /\ p \notin replaced
                      /\ p \notin processed
                      /\ p \in writeOpened \/ ~stdout_marks
                /\ p \notin unreadableNotice =>
                      /\ p \in processed
                      /\ disk[p] = IF fix_mode /\ cand # text THEN cand ELSE disk0[p]

C8_Witness ==
    /\ pc = "done"
    /\ fix_mode
    /\ disk0[TheFile] = <<"C", "X", "C">>
    /\ disk[TheFile] = <<"C">>
    /\ TheFile \in fixedNotice
    /\ unreadableNotice = {}

\* C9: in fix mode the count of the final summary is the number of files whose
\* content was replaced by the candidate text, and every file announced as fixed
\* holds the candidate text when the run ends.
C9_FixedCountIsReplaced ==
    pc = "done" /\ fix_mode =>
        /\ summary.n = Cardinality(replaced)
        /\ \A p \in fixedNotice : disk[p] = ApplyRules(Decode(disk0[p]))

\* C10: counter consistency -- after each file has been handled, errors_found
\* does not exceed files_processed, and every file counted as an issue is counted as
\* processed.
C10_IssuesWithinProcessed ==
    /\ errors_found <= files_processed
    /\ issues \subseteq processed

====
